---- MODULE Spec2Model ----
(***************************************************************************)
(* A model of the potato slave node (src/potatoSlave/slave/slave.go): the  *)
(* accept loop with its pool of worker permits, the ttl checker, the       *)
(* per-connection command loop and the nine invocable functions over the   *)
(* mutex-guarded storage map.                                              *)
(***************************************************************************)
EXTENDS Integers, Sequences, FiniteSets, TLC

(***************************************************************************)
(* Bounds of the model.                                                    *)
(***************************************************************************)
\* The node is configured to accept this many connections (s.numToServ).
MaxServ == 2
\* The node is configured with a pool of one to this many permits
\* (s.NUMWORKERS).
MaxWorkers == 2
\* s.DEFAULTTTL, in clock ticks.
DEFAULTTTL == 2
\* The clock stops advancing here.
MaxTime == 2
\* A client stops sending lpush for a list it sees at this length.
MaxList == 2

(***************************************************************************)
(* Status codes and messages (slave.go 155-174).                           *)
(***************************************************************************)
_OK == 0
_WT == 1
_NK == 2
_WA == 3
_NW == 4

statusMessages ==
    [code \in {_OK, _WT, _NK, _WA, _NW} |->
        CASE code = _OK -> "OK"
          [] code = _WT -> "Object stored at the key is of different type"
          [] code = _NK -> "Key doesn't exist"
          [] code = _WA -> "Wrong call arguments"
          [] code = _NW -> "There are no available workers on the server"]

\* The zero value of ResponseMessage (var response ResponseMessage).
ZeroResponse == [Code |-> 0, StatusMessage |-> "", Value |-> ""]

setStatus(mes, code) ==
    [mes EXCEPT !.Code = code, !.StatusMessage = statusMessages[code]]

\* The zero value of CommandMessage (var mes CommandMessage).
ZeroCommand == [Name |-> "", Arguments |-> <<>>, TTL |-> 0]

(***************************************************************************)
(* The stored values: pstring, plist and pmap behind the potat interface.  *)
(* An entry is a record; the fields its variant does not use keep their    *)
(* zero values.                                                            *)
(***************************************************************************)
EmptyMap == [x \in {} |-> ""]

NewString(content, tod) ==
    [type |-> "pstring", content |-> content, list |-> <<>>,
     ourmap |-> EmptyMap, timeOfDeath |-> tod]

NewList(list, tod) ==
    [type |-> "plist", content |-> "", list |-> list,
     ourmap |-> EmptyMap, timeOfDeath |-> tod]

NewMap(ourmap, tod) ==
    [type |-> "pmap", content |-> "", list |-> <<>>,
     ourmap |-> ourmap, timeOfDeath |-> tod]

\* strconv.Atoi on the selectors the clients send: ok is FALSE for a string
\* that is no decimal integer.
Atoi(str) ==
    CASE str = "0" -> [ok |-> TRUE, n |-> 0]
      [] str = "1" -> [ok |-> TRUE, n |-> 1]
      [] str = "2" -> [ok |-> TRUE, n |-> 2]
      [] str = "3" -> [ok |-> TRUE, n |-> 3]
      [] str = "-1" -> [ok |-> TRUE, n |-> 0 - 1]
      [] OTHER -> [ok |-> FALSE, n |-> 0]

\* potat.getContent(selector): the content and whether an error is returned.
getContent(e, selector) ==
    CASE e.type = "pstring" -> [err |-> FALSE, content |-> e.content]
      [] e.type = "plist" ->
            LET i == Atoi(selector) IN
            IF i.ok /\ i.n >= 0 /\ i.n < Len(e.list)
            THEN [err |-> FALSE, content |-> e.list[i.n + 1]]
            ELSE [err |-> TRUE, content |-> ""]
      [] e.type = "pmap" ->
            IF selector \in DOMAIN e.ourmap
            THEN [err |-> FALSE, content |-> e.ourmap[selector]]
            ELSE [err |-> TRUE, content |-> ""]

\* potat.setContent(content, selector): the entry afterwards and whether an
\* error is returned.  The death time is not touched.
setContent(e, content, selector) ==
    CASE e.type = "pstring" ->
            [err |-> FALSE, entry |-> [e EXCEPT !.content = content]]
      [] e.type = "plist" ->
            LET i == Atoi(selector) IN
            IF selector = "-1"
            THEN [err |-> FALSE, entry |-> [e EXCEPT !.list = Append(@, content)]]
            ELSE IF i.ok /\ i.n >= 0 /\ i.n < Len(e.list)
            THEN [err |-> FALSE, entry |-> [e EXCEPT !.list[i.n + 1] = content]]
            ELSE [err |-> TRUE, entry |-> e]
      [] e.type = "pmap" ->
            [err |-> FALSE,
             entry |-> [e EXCEPT !.ourmap =
                 [x \in (DOMAIN @) \cup {selector} |->
                     IF x = selector THEN content ELSE @[x]]]]

getTimeOfDeath(e) == e.timeOfDeath

(***************************************************************************)
(* The storage map: user -> key -> entry.  A Go map that is missing (nil)  *)
(* reads as empty and ignores delete.                                      *)
(***************************************************************************)
NoKeys == [k \in {} |-> NewString("", 0)]

Keyspace(st, user) == IF user \in DOMAIN st THEN st[user] ELSE NoKeys

Has(st, user, key) == key \in DOMAIN Keyspace(st, user)

\* delete(s.storage[user], key)
Delete(st, user, key) ==
    IF Has(st, user, key)
    THEN [st EXCEPT ![user] = [k \in (DOMAIN @) \ {key} |-> @[k]]]
    ELSE st

\* s.storage[user][key] = e
Store(st, user, key, e) ==
    [st EXCEPT ![user] = [k \in (DOMAIN @) \cup {key} |->
                             IF k = key THEN e ELSE @[k]]]

\* ttl := mes.TTL if it is not zero, else s.DEFAULTTTL
TTLOf(mes) == IF mes.TTL # 0 THEN mes.TTL ELSE DEFAULTTTL

(***************************************************************************)
(* The invocable functions.  Each returns the storage afterwards, the      *)
(* response, and whether the call panicked.  A function that takes the     *)
(* mutex more than once, or reads storage before taking it, is also given  *)
(* piecewise, one definition per stretch of code between lock operations;  *)
(* the whole function is the pieces run back to back.                      *)
(***************************************************************************)
Result(st, resp) == [st |-> st, resp |-> resp, panic |-> FALSE]

Panic(st) == [st |-> st, resp |-> ZeroResponse, panic |-> TRUE]

Arg(mes, i) == mes.Arguments[i]

\* del with the argument count checked as "at least one".
delFirstArgument(st, userID, mes) ==
    IF Len(mes.Arguments) < 1
    THEN Result(st, setStatus(ZeroResponse, _WA))
    ELSE Result(Delete(st, userID, Arg(mes, 1)), setStatus(ZeroResponse, _OK))

del(st, userID, mes) ==
    IF Len(mes.Arguments) # 1
    THEN Result(st, setStatus(ZeroResponse, _WA))
    ELSE Result(Delete(st, userID, Arg(mes, 1)), setStatus(ZeroResponse, _OK))

\* ans += "'" + k + "'," for the keys in the order the map iteration gives.
RECURSIVE JoinKeys(_)
JoinKeys(order) ==
    IF order = <<>> THEN ""
    ELSE "'" \o Head(order) \o "'," \o JoinKeys(Tail(order))

\* The orders in which a range over the user's keyspace can visit its keys.
KeyOrders(st, user) ==
    LET ks == DOMAIN Keyspace(st, user) IN
    {o \in [1..Cardinality(ks) -> ks] : \A i, j \in DOMAIN o : i # j => o[i] # o[j]}

\* keys reads s.storage["user"], whatever userID is.
keys(st, userID, mes, order) ==
    IF Len(mes.Arguments) # 0
    THEN Result(st, setStatus(ZeroResponse, _WA))
    ELSE Result(st, setStatus([ZeroResponse EXCEPT !.Value = JoinKeys(order)], _OK))

get(st, userID, mes) ==
    IF Len(mes.Arguments) # 1
    THEN Result(st, setStatus(ZeroResponse, _WA))
    ELSE IF Has(st, userID, Arg(mes, 1))
    THEN LET val == st[userID][Arg(mes, 1)] IN
         IF val.type = "pstring"
         THEN Result(st, setStatus([ZeroResponse EXCEPT
                                      !.Value = getContent(val, "").content], _OK))
         ELSE Result(st, setStatus(ZeroResponse, _WT))
    ELSE Result(st, setStatus(ZeroResponse, _NK))

\* set, first critical section: delete(s.storage[userID], key).
setDelete(st, userID, mes) == Delete(st, userID, Arg(mes, 1))

\* set, second critical section: store a new pstring dying at t + ttl.
setStore(st, userID, mes, t) ==
    Store(st, userID, Arg(mes, 1), NewString(Arg(mes, 2), t + TTLOf(mes)))

\* set that leaves an entry that is already at the key alone.
setIfAbsent(st, userID, mes, t) ==
    IF Len(mes.Arguments) # 2
    THEN Result(st, setStatus(ZeroResponse, _WA))
    ELSE IF Has(st, userID, Arg(mes, 1))
    THEN Result(st, setStatus(ZeroResponse, _OK))
    ELSE Result(setStore(st, userID, mes, t), setStatus(ZeroResponse, _OK))

set(st, userID, mes, t) ==
    IF Len(mes.Arguments) # 2
    THEN Result(st, setStatus(ZeroResponse, _WA))
    ELSE Result(setStore(setDelete(st, userID, mes), userID, mes, t),
                setStatus(ZeroResponse, _OK))

\* lpush, the read before the mutex is taken: the key exists and is a plist.
lpushCheck(st, userID, mes) ==
    /\ Has(st, userID, Arg(mes, 1))
    /\ st[userID][Arg(mes, 1)].type = "plist"

\* lpushAppend that also gives the list a new death time, as the create
\* path does.
lpushAppendRefresh(st, userID, mes) ==
    IF Has(st, userID, Arg(mes, 1))
    THEN Result(Store(st, userID, Arg(mes, 1),
                      [setContent(st[userID][Arg(mes, 1)], Arg(mes, 2), "-1").entry
                          EXCEPT !.timeOfDeath = @ + TTLOf(mes)]),
                setStatus(ZeroResponse, _OK))
    ELSE Panic(st)

\* lpush, critical section of the append path.  A method call on a key that
\* is no longer in the map is a call on a nil interface: it panics.
lpushAppend(st, userID, mes) ==
    IF Has(st, userID, Arg(mes, 1))
    THEN Result(Store(st, userID, Arg(mes, 1),
                      setContent(st[userID][Arg(mes, 1)], Arg(mes, 2), "-1").entry),
                setStatus(ZeroResponse, _OK))
    ELSE Panic(st)

\* lpush, critical section of the create path.
lpushCreate(st, userID, mes, t) ==
    Result(Store(st, userID, Arg(mes, 1), NewList(<<Arg(mes, 2)>>, t + TTLOf(mes))),
           setStatus(ZeroResponse, _OK))

\* lpush that, like lset, refuses a key that holds another variant.
lpushStrict(st, userID, mes, t) ==
    IF Len(mes.Arguments) # 2
    THEN Result(st, setStatus(ZeroResponse, _WA))
    ELSE IF lpushCheck(st, userID, mes)
    THEN lpushAppend(st, userID, mes)
    ELSE IF Has(st, userID, Arg(mes, 1))
    THEN Result(st, setStatus(ZeroResponse, _WT))
    ELSE lpushCreate(st, userID, mes, t)

lpush(st, userID, mes, t) ==
    IF Len(mes.Arguments) # 2
    THEN Result(st, setStatus(ZeroResponse, _WA))
    ELSE IF lpushCheck(st, userID, mes)
    THEN lpushAppend(st, userID, mes)
    ELSE lpushCreate(st, userID, mes, t)

\* lset that, like lpush, makes the list when the key is not there.
lsetOrCreate(st, userID, mes) ==
    IF Len(mes.Arguments) # 3
    THEN Result(st, setStatus(ZeroResponse, _WA))
    ELSE IF Has(st, userID, Arg(mes, 1))
    THEN LET val == st[userID][Arg(mes, 1)]
             r == setContent(val, Arg(mes, 3), Arg(mes, 2)) IN
         IF val.type = "plist"
         THEN IF r.err
              THEN Result(st, setStatus(ZeroResponse, _WA))
              ELSE Result(Store(st, userID, Arg(mes, 1), r.entry),
                          setStatus(ZeroResponse, _OK))
         ELSE Result(st, setStatus(ZeroResponse, _WT))
    ELSE Result(Store(st, userID, Arg(mes, 1), NewList(<<Arg(mes, 3)>>, 0)),
                setStatus(ZeroResponse, _NK))

lset(st, userID, mes) ==
    IF Len(mes.Arguments) # 3
    THEN Result(st, setStatus(ZeroResponse, _WA))
    ELSE IF Has(st, userID, Arg(mes, 1))
    THEN LET val == st[userID][Arg(mes, 1)]
             r == setContent(val, Arg(mes, 3), Arg(mes, 2)) IN
         IF val.type = "plist"
         THEN IF r.err
              THEN Result(st, setStatus(ZeroResponse, _WA))
              ELSE Result(Store(st, userID, Arg(mes, 1), r.entry),
                          setStatus(ZeroResponse, _OK))
         ELSE Result(st, setStatus(ZeroResponse, _WT))
    ELSE Result(st, setStatus(ZeroResponse, _NK))

lget(st, userID, mes) ==
    IF Len(mes.Arguments) # 2
    THEN Result(st, setStatus(ZeroResponse, _WA))
    ELSE IF Has(st, userID, Arg(mes, 1))
    THEN LET val == st[userID][Arg(mes, 1)]
             r == getContent(val, Arg(mes, 2)) IN
         IF val.type = "plist"
         THEN IF r.err
              THEN Result(st, setStatus(ZeroResponse, _WA))
              ELSE Result(st, setStatus([ZeroResponse EXCEPT !.Value = r.content], _OK))
         ELSE Result(st, setStatus(ZeroResponse, _WT))
    ELSE Result(st, setStatus(ZeroResponse, _NK))

hget(st, userID, mes) ==
    IF Len(mes.Arguments) # 2
    THEN Result(st, setStatus(ZeroResponse, _WA))
    ELSE IF Has(st, userID, Arg(mes, 1))
    THEN LET val == st[userID][Arg(mes, 1)]
             r == getContent(val, Arg(mes, 2)) IN
         IF val.type = "pmap"
         THEN IF r.err
              THEN Result(st, setStatus(ZeroResponse, _WA))
              ELSE Result(st, setStatus([ZeroResponse EXCEPT !.Value = r.content], _OK))
         ELSE Result(st, setStatus(ZeroResponse, _WT))
    ELSE Result(st, setStatus(ZeroResponse, _NK))

\* hset, the read before the mutex is taken: the key exists and is a pmap.
hsetCheck(st, userID, mes) ==
    /\ Has(st, userID, Arg(mes, 1))
    /\ st[userID][Arg(mes, 1)].type = "pmap"

\* hset, critical section of the update path:
\* setContent(mes.Arguments[2], mes.Arguments[1]) on the stored entry.
hsetUpdate(st, userID, mes) ==
    IF Has(st, userID, Arg(mes, 1))
    THEN LET r == setContent(st[userID][Arg(mes, 1)], Arg(mes, 3), Arg(mes, 2)) IN
         IF r.err
         THEN Result(st, setStatus(ZeroResponse, _WA))
         ELSE Result(Store(st, userID, Arg(mes, 1), r.entry),
                     setStatus(ZeroResponse, _OK))
    ELSE Panic(st)

\* hset, critical section of the create path:
\* ourmap: map[string]string{mes.Arguments[2]: mes.Arguments[1]}, and the
\* response is returned as declared, no status set.
hsetCreate(st, userID, mes, t) ==
    Result(Store(st, userID, Arg(mes, 1),
                 NewMap([x \in {Arg(mes, 3)} |-> Arg(mes, 2)], t + TTLOf(mes))),
           ZeroResponse)

hset(st, userID, mes, t) ==
    IF Len(mes.Arguments) # 3
    THEN Result(st, setStatus(ZeroResponse, _WA))
    ELSE IF hsetCheck(st, userID, mes)
    THEN hsetUpdate(st, userID, mes)
    ELSE hsetCreate(st, userID, mes, t)

\* The names in s.functions.
functions == {"del", "keys", "get", "set", "lpush", "lset", "lget", "hget", "hset"}

\* s.functions[mes.Name](username, mes): a name that is not in the map gives
\* a nil function, and calling it panics.
Call(st, userID, mes, t, order) ==
    CASE mes.Name = "del" -> del(st, userID, mes)
      [] mes.Name = "keys" -> keys(st, userID, mes, order)
      [] mes.Name = "get" -> get(st, userID, mes)
      [] mes.Name = "set" -> set(st, userID, mes, t)
      [] mes.Name = "lpush" -> lpush(st, userID, mes, t)
      [] mes.Name = "lset" -> lset(st, userID, mes)
      [] mes.Name = "lget" -> lget(st, userID, mes)
      [] mes.Name = "hget" -> hget(st, userID, mes)
      [] mes.Name = "hset" -> hset(st, userID, mes, t)
      [] OTHER -> Panic(st)

\* The ttl checker's sweep at time t: every key whose death time is before t
\* is deleted.
Sweep(st, t) ==
    [user \in DOMAIN st |->
        [k \in {key \in DOMAIN st[user] : ~(getTimeOfDeath(st[user][key]) < t)} |->
            st[user][k]]]

(***************************************************************************)
(* The state of the node.                                                  *)
(***************************************************************************)
VARIABLES
    numToServ,         \* s.numToServ
    NUMWORKERS,        \* s.NUMWORKERS
    storage,           \* s.storage
    storageMutex,      \* s.storageMutex: who holds it
    availableWorkers,  \* s.availableWorkers: the permits in the channel
    now,               \* the wall clock
    crashed,           \* what the process died of, Alive while it runs
    ctl,               \* StartServing: where it is, its loop counter i, the
                       \* connection c it accepted last, the permits it drained
    reaper,            \* ttlCheckRoutine: where it is
    conn,              \* per connection: "pending", "open" or "closed"
    rejected,          \* per connection: a NoWorkers response was written to it
    pc,                \* per connection: where its handleConnection is
    mes,               \* per connection: handleConnection's mes
    resp               \* per connection: returnMes, between call and Encode

vars == <<numToServ, NUMWORKERS, storage, storageMutex, availableWorkers, now, crashed, ctl, reaper,
          conn, rejected, pc, mes, resp>>

Conns == 1..numToServ

\* What can end the process.
Alive == "running"
AcceptError == "panic(err) after listener.Accept"
NilFunction == "call of a nil function"
NilEntry == "method call on a nil potat"
MapRace == "concurrent map read and map write"

\* What a panicking call of the function named in m dies of.
PanicOf(m) == IF m.Name \in functions THEN NilEntry ELSE NilFunction

User == "user"

Free == [kind |-> "free", id |-> 0]
ByController == [kind |-> "StartServing", id |-> 0]
ByReaper == [kind |-> "ttlCheckRoutine", id |-> 0]
BySession(c) == [kind |-> "handleConnection", id |-> c]

\* A session is running from the go statement until handleConnection returns.
Running(c) == pc[c] \notin {"none", "ended"}

(***************************************************************************)
(* What clients send.  A JSON message may leave a field out; Decode then   *)
(* leaves that field of mes as it was.                                     *)
(***************************************************************************)
Request(name, arguments, ttl) ==
    [Name |-> name, hasArguments |-> TRUE, Arguments |-> arguments,
     hasTTL |-> TRUE, TTL |-> ttl]

WithoutArguments(name, ttl) ==
    [Name |-> name, hasArguments |-> FALSE, Arguments |-> <<>>,
     hasTTL |-> TRUE, TTL |-> ttl]

WithoutTTL(name, arguments) ==
    [Name |-> name, hasArguments |-> TRUE, Arguments |-> arguments,
     hasTTL |-> FALSE, TTL |-> 0]

\* json.Decoder.Decode(&mes) of request r into the message m.
Decode(m, r) ==
    [Name |-> r.Name,
     Arguments |-> IF r.hasArguments THEN r.Arguments ELSE m.Arguments,
     TTL |-> IF r.hasTTL THEN r.TTL ELSE m.TTL]

\* The requests of the sequential client: every command with the right and
\* with a wrong number of arguments, list indices in and out of range, a
\* name that is no command, and messages with a field left out.
SeqRequests ==
    {Request("del", a, 0) : a \in {<<"k">>, <<>>, <<"k", "a">>}}
    \cup {Request("keys", a, 0) : a \in {<<>>, <<"k">>}}
    \cup {Request("get", a, 0) : a \in {<<"k">>, <<>>, <<"k", "a">>}}
    \cup {Request("set", a, t) :
            a \in {<<"k", "a">>, <<"k", "b">>, <<"k">>, <<"k", "a", "b">>}, t \in {0, 1}}
    \cup {Request("lpush", a, t) :
            a \in {<<"k", "a">>, <<"k", "b">>, <<"k">>, <<"k", "a", "b">>}, t \in {0, 1}}
    \cup {Request("lset", a, 0) :
            a \in {<<"k", "0", "b">>, <<"k", "1", "a">>, <<"k", "2", "a">>,
                   <<"k", "a", "b">>, <<"k", "a">>}}
    \cup {Request("lget", a, 0) :
            a \in {<<"k", "0">>, <<"k", "1">>, <<"k", "2">>, <<"k", "a">>, <<"k">>}}
    \cup {Request("hget", a, 0) : a \in {<<"k", "a">>, <<"k", "b">>, <<"k">>}}
    \cup {Request("hset", a, t) :
            a \in {<<"k", "a", "b">>, <<"k", "b", "b">>, <<"k", "a">>}, t \in {0, 1}}
    \cup {Request("flush", <<>>, 0)}
    \cup {WithoutArguments("get", 0), WithoutTTL("set", <<"k", "a">>)}

\* The client does not grow a list it sees at MaxList elements.
Offered(st, m) ==
    m.Name = "lpush" /\ Len(m.Arguments) = 2 /\ lpushCheck(st, User, m)
        => Len(st[User][Arg(m, 1)].list) < MaxList

(***************************************************************************)
(* The sequential specification: one admitted connection whose commands    *)
(* run one at a time, each from Decode to Encode with nothing in between,  *)
(* while the clock advances and the ttl checker sweeps between commands.   *)
(***************************************************************************)
SeqInit ==
    /\ numToServ = MaxServ
    /\ NUMWORKERS = MaxWorkers
    /\ storage = [u \in {User} |-> NoKeys]
    /\ storageMutex = Free
    /\ availableWorkers = NUMWORKERS - 1
    /\ now = 0
    /\ crashed = Alive
    /\ ctl = [pc |-> "accept", i |-> numToServ - 1, c |-> 1, drained |-> 0]
    /\ reaper = "sleep"
    /\ conn = [c \in Conns |-> IF c = 1 THEN "open" ELSE "pending"]
    /\ rejected = [c \in Conns |-> FALSE]
    /\ pc = [c \in Conns |-> IF c = 1 THEN "decode" ELSE "none"]
    /\ mes = [c \in Conns |-> ZeroCommand]
    /\ resp = [c \in Conns |-> ZeroResponse]

\* decoder.Decode(&mes) succeeds.
SeqDecode ==
    /\ crashed = Alive /\ pc[1] = "decode"
    /\ \E r \in SeqRequests :
          /\ Offered(storage, Decode(mes[1], r))
          /\ mes' = [mes EXCEPT ![1] = Decode(mes[1], r)]
    /\ pc' = [pc EXCEPT ![1] = "exec"]
    /\ UNCHANGED <<numToServ, NUMWORKERS, storage, storageMutex, availableWorkers, now, crashed, ctl,
                   reaper, conn, rejected, resp>>

\* returnMes := s.functions[mes.Name](username, mes), run without interruption.
SeqCall ==
    /\ crashed = Alive /\ pc[1] = "exec"
    /\ \E order \in KeyOrders(storage, User) :
          LET r == Call(storage, User, mes[1], now, order) IN
          IF r.panic
          THEN /\ crashed' = PanicOf(mes[1])
               /\ UNCHANGED <<numToServ, NUMWORKERS, storage, pc, resp>>
          ELSE /\ storage' = r.st
               /\ resp' = [resp EXCEPT ![1] = r.resp]
               /\ pc' = [pc EXCEPT ![1] = "respond"]
               /\ UNCHANGED crashed
    /\ UNCHANGED <<numToServ, NUMWORKERS, storageMutex, availableWorkers, now, ctl, reaper, conn,
                   rejected, mes>>

\* encoder.Encode(returnMes)
SeqEncode ==
    /\ crashed = Alive /\ pc[1] = "respond"
    /\ pc' = [pc EXCEPT ![1] = "decode"]
    /\ resp' = [resp EXCEPT ![1] = ZeroResponse]
    /\ UNCHANGED <<numToServ, NUMWORKERS, storage, storageMutex, availableWorkers, now, crashed, ctl,
                   reaper, conn, rejected, mes>>

\* One pass of the ttl checker between two commands.
SeqSweep ==
    /\ crashed = Alive /\ pc[1] = "decode"
    /\ storage' = Sweep(storage, now)
    /\ UNCHANGED <<numToServ, NUMWORKERS, storageMutex, availableWorkers, now, crashed, ctl, reaper,
                   conn, rejected, pc, mes, resp>>

\* Time passes.
Tick ==
    /\ crashed = Alive /\ now < MaxTime
    /\ now' = now + 1
    /\ UNCHANGED <<numToServ, NUMWORKERS, storage, storageMutex, availableWorkers, crashed, ctl, reaper,
                   conn, rejected, pc, mes, resp>>

SeqNext == SeqDecode \/ SeqCall \/ SeqEncode \/ SeqSweep \/ Tick

SeqSpec == SeqInit /\ [][SeqNext]_vars

(***************************************************************************)
(* The node itself: StartServing, the ttl checker and one handleConnection *)
(* per admitted connection, interleaved at the mutex and channel           *)
(* operations.                                                             *)
(***************************************************************************)
\* What the clients of the concurrent node send.
Requests ==
    {Request("set", <<"k", "a">>, 0),
     Request("get", <<"k">>, 0),
     Request("get", <<>>, 0),
     Request("lpush", <<"k", "a">>, 1),
     Request("hset", <<"k", "a", "b">>, 1),
     Request("del", <<"k">>, 0),
     Request("flush", <<>>, 0)}

\* The number of arguments each function asks for.
Arity(name) ==
    CASE name = "keys" -> 0
      [] name \in {"del", "get"} -> 1
      [] name \in {"set", "lpush", "lget", "hget"} -> 2
      [] name \in {"lset", "hset"} -> 3
      [] OTHER -> 0

ArityOK(m) == Len(m.Arguments) = Arity(m.Name)

Init ==
    /\ numToServ = MaxServ
    /\ NUMWORKERS \in 1..MaxWorkers
    /\ storage = [u \in {} |-> NoKeys]
    /\ storageMutex = Free
    /\ availableWorkers = NUMWORKERS
    /\ now = 0
    /\ crashed = Alive
    /\ ctl = [pc |-> "accept", i |-> numToServ, c |-> 0, drained |-> 0]
    /\ reaper = "sleep"
    /\ conn = [c \in Conns |-> "pending"]
    /\ rejected = [c \in Conns |-> FALSE]
    /\ pc = [c \in Conns |-> "none"]
    /\ mes = [c \in Conns |-> ZeroCommand]
    /\ resp = [c \in Conns |-> ZeroResponse]

\* The loop counter after one more connection was dealt with, and where
\* StartServing goes: round the loop, or on to shutdownChan <- true.
Served(k) ==
    [k EXCEPT !.i = @ - 1, !.pc = IF k.i - 1 = 0 THEN "stop" ELSE "accept"]

\* listener.Accept() returns a connection and the select takes a permit that
\* is there, or starts waiting for one.
Accept ==
    /\ crashed = Alive /\ ctl.pc = "accept" /\ ctl.i # 0
    /\ LET c == numToServ - ctl.i + 1 IN
       /\ conn' = [conn EXCEPT ![c] = "open"]
       /\ IF availableWorkers > 0
          THEN /\ availableWorkers' = availableWorkers - 1
               /\ ctl' = [ctl EXCEPT !.pc = "auth", !.c = c]
          ELSE /\ ctl' = [ctl EXCEPT !.pc = "wait", !.c = c]
               /\ UNCHANGED availableWorkers
    /\ UNCHANGED <<numToServ, NUMWORKERS, storage, storageMutex, now, crashed, reaper, rejected, pc,
                   mes, resp>>

\* listener.Accept() returns an error: panic(err).
AcceptFails ==
    /\ crashed = Alive /\ ctl.pc = "accept" /\ ctl.i # 0
    /\ crashed' = AcceptError
    /\ UNCHANGED <<numToServ, NUMWORKERS, storage, storageMutex, availableWorkers, now, ctl, reaper,
                   conn, rejected, pc, mes, resp>>

\* case <-s.availableWorkers, while waiting in the select.
TakePermit ==
    /\ crashed = Alive /\ ctl.pc = "wait" /\ availableWorkers > 0
    /\ availableWorkers' = availableWorkers - 1
    /\ ctl' = [ctl EXCEPT !.pc = "auth"]
    /\ UNCHANGED <<numToServ, NUMWORKERS, storage, storageMutex, now, crashed, reaper, conn, rejected,
                   pc, mes, resp>>

\* case <-time.After(time.Second): the NoWorkers response is written and the
\* loop goes on.
NoWorkers ==
    /\ crashed = Alive /\ ctl.pc = "wait"
    /\ rejected' = [rejected EXCEPT ![ctl.c] = TRUE]
    /\ ctl' = Served(ctl)
    /\ UNCHANGED <<numToServ, NUMWORKERS, storage, storageMutex, availableWorkers, now, crashed, reaper,
                   conn, pc, mes, resp>>

\* authConnection: s.storageMutex.Lock()
AuthLock ==
    /\ crashed = Alive /\ ctl.pc = "auth" /\ storageMutex = Free
    /\ storageMutex' = ByController
    /\ ctl' = [ctl EXCEPT !.pc = "authcs"]
    /\ UNCHANGED <<numToServ, NUMWORKERS, storage, availableWorkers, now, crashed, reaper, conn,
                   rejected, pc, mes, resp>>

\* authConnection: the user's map is made if it is not there.
authConnection(st) ==
    IF User \in DOMAIN st THEN st
    ELSE [u \in (DOMAIN st) \cup {User} |-> IF u = User THEN NoKeys ELSE st[u]]

\* The rest of authConnection, then go s.handleConnection(c, name).
AuthDone ==
    /\ crashed = Alive /\ ctl.pc = "authcs"
    /\ storage' = authConnection(storage)
    /\ storageMutex' = Free
    /\ pc' = [pc EXCEPT ![ctl.c] = "decode"]
    /\ ctl' = Served(ctl)
    /\ UNCHANGED <<numToServ, NUMWORKERS, availableWorkers, now, crashed, reaper, conn, rejected, mes,
                   resp>>

\* shutdownChan <- true meets the ttl checker's case <-shutdownChan.
Shutdown ==
    /\ crashed = Alive /\ ctl.pc = "stop" /\ reaper \in {"select", "selwait"}
    /\ ctl' = [ctl EXCEPT !.pc = "drain"]
    /\ reaper' = "stopped"
    /\ UNCHANGED <<numToServ, NUMWORKERS, storage, storageMutex, availableWorkers, now, crashed, conn,
                   rejected, pc, mes, resp>>

\* Drain with the loop bound off by one: i <= s.NUMWORKERS.
DrainOneMore ==
    /\ crashed = Alive /\ ctl.pc = "drain" /\ availableWorkers > 0
    /\ availableWorkers' = availableWorkers - 1
    /\ ctl' = [ctl EXCEPT !.drained = @ + 1,
                          !.pc = IF ctl.drained = NUMWORKERS THEN "done" ELSE "drain"]
    /\ UNCHANGED <<numToServ, NUMWORKERS, storage, storageMutex, now, crashed,
                   reaper, conn, rejected, pc, mes, resp>>

\* Drain with the loop left after its first receive.
DrainOnce ==
    /\ crashed = Alive /\ ctl.pc = "drain" /\ availableWorkers > 0
    /\ availableWorkers' = availableWorkers - 1
    /\ ctl' = [ctl EXCEPT !.drained = @ + 1, !.pc = "done"]
    /\ UNCHANGED <<numToServ, NUMWORKERS, storage, storageMutex, now, crashed,
                   reaper, conn, rejected, pc, mes, resp>>

\* for i := 0; i < s.NUMWORKERS; i++ { <-s.availableWorkers }
Drain ==
    /\ crashed = Alive /\ ctl.pc = "drain" /\ availableWorkers > 0
    /\ availableWorkers' = availableWorkers - 1
    /\ ctl' = [ctl EXCEPT !.drained = @ + 1,
                          !.pc = IF ctl.drained + 1 = NUMWORKERS THEN "done" ELSE "drain"]
    /\ UNCHANGED <<numToServ, NUMWORKERS, storage, storageMutex, now, crashed, reaper, conn, rejected,
                   pc, mes, resp>>

\* ttlCheckRoutine: time.Sleep(cleanup) is over and mut.Lock() succeeds.
ReaperLock ==
    /\ crashed = Alive /\ reaper = "sleep" /\ storageMutex = Free
    /\ storageMutex' = ByReaper
    /\ reaper' = "sweep"
    /\ UNCHANGED <<numToServ, NUMWORKERS, storage, availableWorkers, now, crashed, ctl, conn, rejected,
                   pc, mes, resp>>

\* ttlCheckRoutine: the two loops over storage, then mut.Unlock().
ReaperSweep ==
    /\ crashed = Alive /\ reaper = "sweep"
    /\ storage' = Sweep(storage, now)
    /\ storageMutex' = Free
    /\ reaper' = "select"
    /\ UNCHANGED <<numToServ, NUMWORKERS, availableWorkers, now, crashed, ctl, conn, rejected, pc, mes,
                   resp>>

\* ttlCheckRoutine enters its select and nobody is sending on shutdownChan.
ReaperWait ==
    /\ crashed = Alive /\ reaper = "select" /\ ctl.pc # "stop"
    /\ reaper' = "selwait"
    /\ UNCHANGED <<numToServ, NUMWORKERS, storage, storageMutex, availableWorkers, now, crashed, ctl,
                   conn, rejected, pc, mes, resp>>

\* ttlCheckRoutine: case <-time.After(time.Second): continue
ReaperTimeout ==
    /\ crashed = Alive /\ reaper = "selwait"
    /\ reaper' = "sleep"
    /\ UNCHANGED <<numToServ, NUMWORKERS, storage, storageMutex, availableWorkers, now, crashed, ctl,
                   conn, rejected, pc, mes, resp>>

(***************************************************************************)
(* handleConnection.                                                       *)
(***************************************************************************)
\* decoder.Decode(&mes) returns a command.
SessDecode(c) ==
    /\ crashed = Alive /\ pc[c] = "decode"
    /\ \E r \in Requests :
          /\ Offered(storage, Decode(mes[c], r))
          /\ mes' = [mes EXCEPT ![c] = Decode(mes[c], r)]
    /\ pc' = [pc EXCEPT ![c] = "exec"]
    /\ UNCHANGED <<numToServ, NUMWORKERS, storage, storageMutex, availableWorkers, now, crashed, ctl,
                   reaper, conn, rejected, resp>>

\* SessEnd without s.availableWorkers <- true: the permit is lost.
SessEndKeepsPermit(c) ==
    /\ crashed = Alive /\ pc[c] = "decode"
    /\ conn' = [conn EXCEPT ![c] = "closed"]
    /\ pc' = [pc EXCEPT ![c] = "ended"]
    /\ mes' = [mes EXCEPT ![c] = ZeroCommand]
    /\ UNCHANGED <<numToServ, NUMWORKERS, storage, storageMutex,
                   availableWorkers, now, crashed, ctl, reaper, rejected, resp>>

\* decoder.Decode(&mes) returns an error (the peer is gone, the deadline
\* passed, the bytes are no JSON): the permit goes back, the function
\* returns, its mes is no more, and the deferred connection.Close() runs.
SessEnd(c) ==
    /\ crashed = Alive /\ pc[c] = "decode"
    /\ availableWorkers' = availableWorkers + 1
    /\ conn' = [conn EXCEPT ![c] = "closed"]
    /\ pc' = [pc EXCEPT ![c] = "ended"]
    /\ mes' = [mes EXCEPT ![c] = ZeroCommand]
    /\ UNCHANGED <<numToServ, NUMWORKERS, storage, storageMutex, now, crashed, ctl, reaper, rejected,
                   resp>>

\* s.functions[mes.Name] is nil: the call panics and the process dies.
SessUnknown(c) ==
    /\ crashed = Alive /\ pc[c] = "exec" /\ mes[c].Name \notin functions
    /\ Call(storage, User, mes[c], now, <<>>).panic
    /\ crashed' = NilFunction
    /\ UNCHANGED <<numToServ, NUMWORKERS, storage, storageMutex, availableWorkers, now, ctl, reaper,
                   conn, rejected, pc, mes, resp>>

\* The function finds the wrong number of arguments and returns at once.
SessWrongArity(c) ==
    /\ crashed = Alive /\ pc[c] = "exec" /\ mes[c].Name \in functions /\ ~ArityOK(mes[c])
    /\ resp' = [resp EXCEPT ![c] = Call(storage, User, mes[c], now, <<>>).resp]
    /\ pc' = [pc EXCEPT ![c] = "respond"]
    /\ UNCHANGED <<numToServ, NUMWORKERS, storage, storageMutex, availableWorkers, now, crashed, ctl,
                   reaper, conn, rejected, mes>>

\* The functions whose first access to storage is under the mutex.
LockFirst == {"del", "keys", "get", "set", "lset", "lget", "hget"}

\* s.storageMutex.Lock() in del, keys, get, set, lset, lget, hget.
SessLock(c) ==
    /\ crashed = Alive /\ pc[c] = "exec" /\ mes[c].Name \in LockFirst /\ ArityOK(mes[c])
    /\ storageMutex = Free
    /\ storageMutex' = BySession(c)
    /\ pc' = [pc EXCEPT ![c] = "cs"]
    /\ UNCHANGED <<numToServ, NUMWORKERS, storage, availableWorkers, now, crashed, ctl, reaper, conn,
                   rejected, mes, resp>>

\* The critical section of del, keys, get, lset, lget, hget, to Unlock().
SessBody(c) ==
    /\ crashed = Alive /\ pc[c] = "cs" /\ mes[c].Name # "set"
    /\ \E order \in KeyOrders(storage, User) :
          LET r == Call(storage, User, mes[c], now, order) IN
          /\ storage' = r.st
          /\ resp' = [resp EXCEPT ![c] = r.resp]
    /\ storageMutex' = Free
    /\ pc' = [pc EXCEPT ![c] = "respond"]
    /\ UNCHANGED <<numToServ, NUMWORKERS, availableWorkers, now, crashed, ctl, reaper, conn, rejected,
                   mes>>

\* set: the first critical section, to Unlock().
SessSetDelete(c) ==
    /\ crashed = Alive /\ pc[c] = "cs" /\ mes[c].Name = "set"
    /\ storage' = setDelete(storage, User, mes[c])
    /\ storageMutex' = Free
    /\ pc' = [pc EXCEPT ![c] = "set2"]
    /\ UNCHANGED <<numToServ, NUMWORKERS, availableWorkers, now, crashed, ctl, reaper, conn, rejected,
                   mes, resp>>

\* set: the second s.storageMutex.Lock().
SessSetLock(c) ==
    /\ crashed = Alive /\ pc[c] = "set2" /\ storageMutex = Free
    /\ storageMutex' = BySession(c)
    /\ pc' = [pc EXCEPT ![c] = "set2cs"]
    /\ UNCHANGED <<numToServ, NUMWORKERS, storage, availableWorkers, now, crashed, ctl, reaper, conn,
                   rejected, mes, resp>>

\* set: the second critical section, to the return.
SessSetStore(c) ==
    /\ crashed = Alive /\ pc[c] = "set2cs"
    /\ storage' = setStore(storage, User, mes[c], now)
    /\ storageMutex' = Free
    /\ resp' = [resp EXCEPT ![c] = setStatus(ZeroResponse, _OK)]
    /\ pc' = [pc EXCEPT ![c] = "respond"]
    /\ UNCHANGED <<numToServ, NUMWORKERS, availableWorkers, now, crashed, ctl, reaper, conn, rejected,
                   mes>>

\* Whoever holds the mutex is in a critical section that writes a Go map:
\* an insert, or a delete from a map that is not empty.
MapWriteInProgress ==
    \/ storageMutex = ByController /\ User \notin DOMAIN storage
    \/ storageMutex = ByReaper /\ Sweep(storage, now) # storage
    \/ /\ storageMutex.kind = "handleConnection"
       /\ \/ pc[storageMutex.id] \in {"set2cs", "newcs"}
          \/ /\ pc[storageMutex.id] = "cs"
             /\ mes[storageMutex.id].Name \in {"del", "set"}
             /\ DOMAIN Keyspace(storage, User) # {}

\* lpush and hset read s.storage[userID][key] and its type without the mutex.
\* The read tells which path is taken; a read that meets a write of the map
\* by the holder of the mutex is a data race, and the runtime may end the
\* process (concurrent map read and map write).
SessCheck(c) ==
    /\ crashed = Alive /\ pc[c] = "exec" /\ mes[c].Name \in {"lpush", "hset"}
    /\ ArityOK(mes[c])
    /\ \/ /\ pc' = [pc EXCEPT ![c] =
                IF \/ mes[c].Name = "lpush" /\ lpushCheck(storage, User, mes[c])
                   \/ mes[c].Name = "hset" /\ hsetCheck(storage, User, mes[c])
                THEN "upd" ELSE "new"]
          /\ UNCHANGED crashed
       \/ /\ MapWriteInProgress
          /\ crashed' = MapRace
          /\ UNCHANGED pc
    /\ UNCHANGED <<numToServ, NUMWORKERS, storage, storageMutex, availableWorkers, now, ctl, reaper,
                   conn, rejected, mes, resp>>

\* lpush, hset: s.storageMutex.Lock() on either path.
SessPathLock(c) ==
    /\ crashed = Alive /\ pc[c] \in {"upd", "new"} /\ storageMutex = Free
    /\ storageMutex' = BySession(c)
    /\ pc' = [pc EXCEPT ![c] = IF pc[c] = "upd" THEN "updcs" ELSE "newcs"]
    /\ UNCHANGED <<numToServ, NUMWORKERS, storage, availableWorkers, now, crashed, ctl, reaper, conn,
                   rejected, mes, resp>>

\* lpush, hset: setContent on the stored entry, to the return; the call
\* panics when the entry is gone.
SessUpdate(c) ==
    /\ crashed = Alive /\ pc[c] = "updcs"
    /\ LET r == IF mes[c].Name = "lpush"
                THEN lpushAppend(storage, User, mes[c])
                ELSE hsetUpdate(storage, User, mes[c]) IN
       IF r.panic
       THEN /\ crashed' = NilEntry
            /\ UNCHANGED <<numToServ, NUMWORKERS, storage, storageMutex, pc,
                           resp>>
       ELSE /\ storage' = r.st
            /\ storageMutex' = Free
            /\ resp' = [resp EXCEPT ![c] = r.resp]
            /\ pc' = [pc EXCEPT ![c] = "respond"]
            /\ UNCHANGED crashed
    /\ UNCHANGED <<numToServ, NUMWORKERS, availableWorkers, now, ctl, reaper,
                   conn, rejected, mes>>

\* lpush, hset: the new entry is stored, to the return.
SessCreate(c) ==
    /\ crashed = Alive /\ pc[c] = "newcs"
    /\ LET r == IF mes[c].Name = "lpush"
                THEN lpushCreate(storage, User, mes[c], now)
                ELSE hsetCreate(storage, User, mes[c], now) IN
       /\ storage' = r.st
       /\ resp' = [resp EXCEPT ![c] = r.resp]
    /\ storageMutex' = Free
    /\ pc' = [pc EXCEPT ![c] = "respond"]
    /\ UNCHANGED <<numToServ, NUMWORKERS, availableWorkers, now, crashed, ctl, reaper, conn, rejected,
                   mes>>

\* encoder.Encode(returnMes)
SessEncode(c) ==
    /\ crashed = Alive /\ pc[c] = "respond"
    /\ pc' = [pc EXCEPT ![c] = "decode"]
    /\ resp' = [resp EXCEPT ![c] = ZeroResponse]
    /\ UNCHANGED <<numToServ, NUMWORKERS, storage, storageMutex, availableWorkers, now, crashed, ctl,
                   reaper, conn, rejected, mes>>

Next ==
    \/ Accept
    \/ AcceptFails
    \/ TakePermit
    \/ NoWorkers
    \/ AuthLock
    \/ AuthDone
    \/ Shutdown
    \/ Drain
    \/ ReaperLock
    \/ ReaperSweep
    \/ ReaperWait
    \/ ReaperTimeout
    \/ \E c \in Conns : SessDecode(c)
    \/ \E c \in Conns : SessEnd(c)
    \/ \E c \in Conns : SessUnknown(c)
    \/ \E c \in Conns : SessWrongArity(c)
    \/ \E c \in Conns : SessLock(c)
    \/ \E c \in Conns : SessBody(c)
    \/ \E c \in Conns : SessSetDelete(c)
    \/ \E c \in Conns : SessSetLock(c)
    \/ \E c \in Conns : SessSetStore(c)
    \/ \E c \in Conns : SessCheck(c)
    \/ \E c \in Conns : SessPathLock(c)
    \/ \E c \in Conns : SessUpdate(c)
    \/ \E c \in Conns : SessCreate(c)
    \/ \E c \in Conns : SessEncode(c)
    \/ Tick

\* The steps of the goroutines alone, the clock standing still.  The clock is
\* read where a death time is set or compared; where a goroutine goes next
\* never depends on it (a timeout is a step of its own).
Run ==
    \/ Accept \/ AcceptFails \/ TakePermit \/ NoWorkers \/ AuthLock \/ AuthDone
    \/ Shutdown \/ Drain
    \/ ReaperLock \/ ReaperSweep \/ ReaperWait \/ ReaperTimeout
    \/ \E c \in Conns :
          \/ SessDecode(c) \/ SessEnd(c) \/ SessUnknown(c) \/ SessWrongArity(c)
          \/ SessLock(c) \/ SessBody(c) \/ SessSetDelete(c) \/ SessSetLock(c)
          \/ SessSetStore(c) \/ SessCheck(c) \/ SessPathLock(c) \/ SessUpdate(c)
          \/ SessCreate(c) \/ SessEncode(c)

Spec == Init /\ [][Next]_vars

(***************************************************************************)
(* The admission of connections and the shutdown.                          *)
(***************************************************************************)
\* The sessions that are running handleConnection.
Sessions == {c \in Conns : Running(c)}

\* The permits StartServing has taken out of the channel and that no session
\* owns: the one for a connection it is about to start a session for, and
\* those it received after the accept loop.
HeldByController ==
    (IF ctl.pc \in {"auth", "authcs"} THEN 1 ELSE 0) + ctl.drained

\* C1 as stated: in every reachable state the free permits and the running
\* sessions add up to the pool size W.
PermitsPlusSessionsIsPool ==
    availableWorkers + Cardinality(Sessions) = NUMWORKERS

\* C1 as amended: the free permits, the running sessions and the permits
\* StartServing holds itself add up to W, and whenever StartServing holds none
\* the free permits and the sessions alone do; at most W sessions run at once;
\* a session runs only on an open connection that was not rejected, and a
\* rejected connection has no session.
PermitAccounting ==
    /\ availableWorkers + Cardinality(Sessions) + HeldByController = NUMWORKERS
    /\ HeldByController = 0 => PermitsPlusSessionsIsPool
    /\ availableWorkers >= 0
    /\ Cardinality(Sessions) <= NUMWORKERS
    /\ \A c \in Conns : Running(c) => conn[c] = "open" /\ ~rejected[c]
    /\ \A c \in Conns : rejected[c] => pc[c] = "none"

\* A pool in full use turned a connection away, and a session has ended and
\* given its permit back.
PermitAccounting_Witness ==
    /\ \E c \in Conns : rejected[c]
    /\ \E c \in Conns : pc[c] = "ended"
    /\ crashed = Alive

\* C2: once the rejection of a connection is over (the NoWorkers response is
\* written and the loop has moved on), that connection is closed.
RejectedConnectionIsClosed ==
    \A c \in Conns : rejected[c] => conn[c] = "closed"

\* C3: StartServing is past shutdownChan <- true only when the ttl checker has
\* taken the stop signal, and it has returned only when it received all W
\* permits and no session is running.
ShutdownOrdering ==
    /\ ctl.pc \in {"drain", "done"} => reaper = "stopped"
    /\ ctl.pc = "done" =>
          /\ ctl.drained = NUMWORKERS
          /\ Sessions = {}
          /\ storageMutex = Free

\* StartServing has returned from a node that had two permits and served
\* sessions.
ShutdownOrdering_Witness ==
    /\ ctl.pc = "done"
    /\ NUMWORKERS = MaxWorkers
    /\ \A c \in Conns : pc[c] = "ended"

\* C5: the dispatch of a command whose name is not one of the nine leaves the
\* process alive and gives the session a response whose status is none of
\* the five known ones.
UnknownCommandIsAnswered ==
    [][\A c \in Conns :
          /\ pc[c] = "exec" /\ mes[c].Name \notin functions
          /\ (pc'[c] # "exec" \/ crashed' = NilFunction)
          => /\ crashed' = Alive
             /\ pc'[c] = "respond"
             /\ resp'[c].Code \notin {_OK, _WT, _NK, _WA, _NW}]_vars

(***************************************************************************)
(* The commands, one at a time (SeqSpec).  A step of SeqCall takes the     *)
(* session from "exec" to "respond"; the state before it is the storage    *)
(* the command found, the state after it the storage and response it left. *)
(***************************************************************************)
\* The session has a decoded command of the given names in hand, and this
\* step runs it to its response.
Runs(names) ==
    /\ pc[1] = "exec" /\ pc'[1] = "respond"
    /\ mes[1].Name \in names

\* The number of arguments each command requires, as the dispatcher's table
\* is specified.
RequiredArity ==
    [name \in functions |->
        CASE name = "del" -> 1 [] name = "keys" -> 0 [] name = "get" -> 1
          [] name = "set" -> 2 [] name = "lpush" -> 2 [] name = "lset" -> 3
          [] name = "lget" -> 2 [] name = "hget" -> 2 [] name = "hset" -> 3]

\* The response hget gives for sub-key f of key k on storage st.
HgetOf(st, k, f) == hget(st, User, Request("hget", <<k, f>>, 0)).resp

\* What is left of storage when the contents are taken away: the keys, and
\* each entry's variant and death time.
Shape(st) ==
    [u \in DOMAIN st |->
        [k \in DOMAIN st[u] |-> <<st[u][k].type, st[u][k].timeOfDeath>>]]

\* The sub-keys of the map at key k, none if k holds no map.
SubKeys(st, k) ==
    IF Has(st, User, k) /\ st[User][k].type = "pmap"
    THEN DOMAIN st[User][k].ourmap ELSE {}

\* C6: when hset(k, f, v) has returned, hget(k, f) gives (v, OK), and hget(k, m)
\* gives WrongArguments for every sub-key m that is not f and was not in a map
\* that k held before.
HsetThenHget ==
    [][Runs({"hset"}) /\ Len(mes[1].Arguments) = 3 =>
          LET k == Arg(mes[1], 1)
              f == Arg(mes[1], 2)
              v == Arg(mes[1], 3) IN
          /\ HgetOf(storage', k, f) = setStatus([ZeroResponse EXCEPT !.Value = v], _OK)
          /\ \A m \in {"a", "b", "c"} \ (SubKeys(storage, k) \cup {f}) :
                HgetOf(storage', k, m).Code = _WA]_vars

\* C7: del(k) for a key k that is not in the keyspace answers NoKey and leaves
\* storage as it was.
DelOfAbsentKeyIsNoKey ==
    [][/\ Runs({"del"}) /\ Len(mes[1].Arguments) = 1
       /\ ~Has(storage, User, Arg(mes[1], 1))
       => resp'[1].Code = _NK /\ storage' = storage]_vars

\* C8: a get, lget or hget of a key whose entry's death time is now or earlier
\* does not return the entry's content; get answers NoKey.
DeadEntryIsInaccessible ==
    [][/\ Runs({"get", "lget", "hget"})
       /\ Len(mes[1].Arguments) = RequiredArity[mes[1].Name]
       /\ Has(storage, User, Arg(mes[1], 1))
       /\ getTimeOfDeath(storage[User][Arg(mes[1], 1)]) <= now
       => /\ resp'[1].Code # _OK
          /\ mes[1].Name = "get" => resp'[1].Code = _NK]_vars

\* C9: a command of the nine given another number of arguments than it
\* requires answers WrongArguments and leaves storage as it was.
WrongArityIsRefused ==
    [][/\ Runs(functions)
       /\ Len(mes[1].Arguments) # RequiredArity[mes[1].Name]
       => /\ resp'[1] = setStatus(ZeroResponse, _WA)
          /\ storage' = storage]_vars

\* A command with a wrong number of arguments was answered while the key it
\* names held an entry.
WrongArityIsRefused_Witness ==
    /\ pc[1] = "respond"
    /\ mes[1].Name = "del" /\ Len(mes[1].Arguments) = 2
    /\ Has(storage, User, Arg(mes[1], 1))
    /\ resp[1].Code = _WA

\* The variant each reading command expects.
Expected(name) ==
    CASE name = "get" -> "pstring"
      [] name \in {"lget", "lset"} -> "plist"
      [] name = "hget" -> "pmap"

\* C10: get, lget, hget and lset with the right number of arguments answer
\* NoKey for a key that is not there and WrongType for a key whose entry is
\* of another variant, and none of them changes the set of keys, an entry's
\* variant or a death time; get, lget and hget change nothing at all.
ReadsNeverCreate ==
    [][/\ Runs({"get", "lget", "hget", "lset"})
       /\ Len(mes[1].Arguments) = RequiredArity[mes[1].Name]
       => LET k == Arg(mes[1], 1) IN
          /\ ~Has(storage, User, k) => resp'[1].Code = _NK
          /\ Has(storage, User, k) /\ storage[User][k].type # Expected(mes[1].Name)
                => resp'[1].Code = _WT
          /\ Shape(storage') = Shape(storage)
          /\ mes[1].Name # "lset" => storage' = storage
          /\ resp'[1].Code \in {_NK, _WT} => storage' = storage]_vars

\* lset was answered NoKey, and lget was answered WrongType on a key that
\* holds a string: both cases are checked where each is seen.
ReadsNeverCreate_Witness ==
    /\ pc[1] = "respond"
    /\ \/ mes[1].Name = "lset" /\ resp[1].Code = _NK
       \/ /\ mes[1].Name = "lget" /\ resp[1].Code = _WT
          /\ storage[User]["k"].type = "pstring"

(***************************************************************************)
(* Death times, lists and strings (SeqSpec).                               *)
(***************************************************************************)
\* The death time of an entry made at time t by command m.
FreshDeath(m, t) == t + (IF m.TTL # 0 THEN m.TTL ELSE DEFAULTTTL)

\* Command m changes the entry at its key in place on storage st: lpush on a
\* list, hset on a map, lset on whatever is there.
InPlace(st, m) ==
    /\ Has(st, User, Arg(m, 1))
    /\ \/ m.Name = "lset"
       \/ m.Name = "lpush" /\ st[User][Arg(m, 1)].type = "plist"
       \/ m.Name = "hset" /\ st[User][Arg(m, 1)].type = "pmap"

\* C11: a write that changes an entry in place (lpush on a list, lset, hset on
\* a map) leaves its variant and death time as they were; set on any key, and
\* lpush and hset on a key that is absent or of another variant, leave there
\* an entry whose death time is the time of the command plus its TTL, or plus
\* the default TTL when its TTL is zero; no other key's entry is touched.
DeathTimeFixedAtCreation ==
    [][/\ Runs({"set", "lpush", "lset", "hset"})
       /\ Len(mes[1].Arguments) = RequiredArity[mes[1].Name]
       => LET k == Arg(mes[1], 1) IN
          /\ InPlace(storage, mes[1]) =>
                /\ Has(storage', User, k)
                /\ storage'[User][k].type = storage[User][k].type
                /\ getTimeOfDeath(storage'[User][k]) = getTimeOfDeath(storage[User][k])
          /\ ~InPlace(storage, mes[1]) /\ mes[1].Name # "lset" =>
                /\ Has(storage', User, k)
                /\ getTimeOfDeath(storage'[User][k]) = FreshDeath(mes[1], now)
          /\ ~InPlace(storage, mes[1]) /\ mes[1].Name = "lset" => storage' = storage
          /\ \A j \in DOMAIN Keyspace(storage, User) \ {k} :
                Has(storage', User, j) /\ storage'[User][j] = storage[User][j]]_vars

\* lpush has appended to a list whose death time is not the one a list made
\* now by this command would get.
DeathTimeFixedAtCreation_Witness ==
    /\ pc[1] = "respond" /\ mes[1].Name = "lpush" /\ resp[1].Code = _OK
    /\ Has(storage, User, "k") /\ storage[User]["k"].type = "plist"
    /\ Len(storage[User]["k"].list) = 2
    /\ now > 0
    /\ getTimeOfDeath(storage[User]["k"]) < FreshDeath(mes[1], now)

\* The selector that names index i of a list.
IndexName(i) == CASE i = 0 -> "0" [] i = 1 -> "1" [] i = 2 -> "2" [] i = 3 -> "3"

\* The response lget gives for index i of key k on storage st.
LgetOf(st, k, i) == lget(st, User, Request("lget", <<k, IndexName(i)>>, 0)).resp

\* The list that key k holds, empty when it holds none.
ListAt(st, k) ==
    IF Has(st, User, k) /\ st[User][k].type = "plist" THEN st[User][k].list ELSE <<>>

\* C12: lpush(k, x) answers OK whatever k held; afterwards k holds a list that
\* is the list it held before with x at the end, or <<x>> alone when it held
\* no list, and lget gives each element of it at its index.
LpushAppendsOrReplaces ==
    [][Runs({"lpush"}) /\ Len(mes[1].Arguments) = 2 =>
          LET k == Arg(mes[1], 1)
              x == Arg(mes[1], 2)
              after == Append(ListAt(storage, k), x) IN
          /\ resp'[1] = setStatus(ZeroResponse, _OK)
          /\ Has(storage', User, k)
          /\ storage'[User][k].type = "plist"
          /\ ListAt(storage', k) = after
          /\ \A i \in 1..Len(after) :
                LgetOf(storage', k, i - 1) =
                    setStatus([ZeroResponse EXCEPT !.Value = after[i]], _OK)]_vars

\* lpush(k, a) then lpush(k, b) have run: the list is a, b.
LpushAppendsOrReplaces_Witness ==
    /\ pc[1] = "respond" /\ mes[1].Name = "lpush" /\ resp[1].Code = _OK
    /\ ListAt(storage, "k") = <<"a", "b">>
    /\ LgetOf(storage, "k", 0).Value = "a"
    /\ LgetOf(storage, "k", 1).Value = "b"

\* The response get gives for key k on storage st.
GetOf(st, k) == get(st, User, Request("get", <<k>>, 0)).resp

\* C13: when set(k, v) has returned OK, whatever k held, the keyspace holds at
\* k a string entry with content v and get(k) gives (v, OK); the other keys
\* are as they were.
SetLeavesOneString ==
    [][Runs({"set"}) /\ Len(mes[1].Arguments) = 2 =>
          LET k == Arg(mes[1], 1)
              v == Arg(mes[1], 2) IN
          /\ resp'[1] = setStatus(ZeroResponse, _OK)
          /\ DOMAIN Keyspace(storage', User) = DOMAIN Keyspace(storage, User) \cup {k}
          /\ storage'[User][k] = NewString(v, FreshDeath(mes[1], now))
          /\ GetOf(storage', k) = setStatus([ZeroResponse EXCEPT !.Value = v], _OK)
          /\ \A j \in DOMAIN Keyspace(storage, User) \ {k} :
                storage'[User][j] = storage[User][j]]_vars

\* set(k, b) has run after the clock has moved, and k holds the string b
\* with a death time counted from then.
SetLeavesOneString_Witness ==
    /\ pc[1] = "respond" /\ mes[1].Name = "set" /\ resp[1].Code = _OK
    /\ Arg(mes[1], 2) = "b"
    /\ GetOf(storage, "k").Value = "b"
    /\ getTimeOfDeath(storage[User]["k"]) = FreshDeath(mes[1], now)
    /\ now > 0

(***************************************************************************)
(* Requests and responses, the mutex, and the ttl checker's sweep.         *)
(***************************************************************************)
\* Session c has decoded a command and has not yet written its response.
InHand(c) == pc[c] \notin {"none", "decode", "ended"}

\* C14: a command a session has decoded is answered: while it is in the
\* session's hands no command's failure ends the process, it leaves them only
\* by the one Encode of its response, and only then is the next command
\* decoded; a session that has ended does nothing more; a connection is
\* rejected by one NoWorkers response and never gets a session.
EveryRequestIsAnswered ==
    [][\A c \in Conns :
          /\ InHand(c) /\ crashed = Alive => crashed' \in {Alive, AcceptError}
          /\ pc[c] # "exec" /\ pc'[c] = "exec" => pc[c] = "decode"
          /\ InHand(c) /\ pc'[c] \in {"none", "decode", "ended"} =>
                pc[c] = "respond" /\ pc'[c] = "decode"
          /\ pc[c] = "ended" => pc'[c] = "ended" /\ conn'[c] = "closed"
          /\ rejected[c] => rejected'[c] /\ pc'[c] = "none"
          /\ ~rejected[c] /\ rejected'[c] => ctl.pc = "wait" /\ ctl.c = c
          /\ ctl.pc = "wait" /\ ctl'.pc \notin {"wait", "auth"} /\ ctl.c = c =>
                ~rejected[c] /\ rejected'[c]]_vars

\* C15: every step that reads storage to decide what to do, or that changes
\* storage, is taken by the task that holds the mutex.
StorageAccessIsLocked ==
    [][/\ storage' # storage => storageMutex # Free
       /\ \A c \in Conns :
             /\ pc[c] = "exec" /\ pc'[c] \in {"upd", "new"} => storageMutex = BySession(c)
             /\ pc[c] \in {"cs", "set2cs", "updcs", "newcs"} => storageMutex = BySession(c)]_vars

\* C16: set(k, v2) on a key that holds a string v1 never gives up the mutex
\* with k deleted and not yet stored again: whenever a session running set
\* releases the mutex it took with k present, k holds v2, so that a get of
\* another session finds the old value or the new one and never no key.
SetIsAtomic ==
    [][\A c \in Conns :
          /\ storageMutex = BySession(c) /\ storageMutex' = Free
          /\ mes[c].Name = "set"
          /\ Has(storage, User, Arg(mes[c], 1))
          /\ storage[User][Arg(mes[c], 1)].type = "pstring"
          => /\ Has(storage', User, Arg(mes[c], 1))
             /\ GetOf(storage', Arg(mes[c], 1)).Code = _OK
             /\ GetOf(storage', Arg(mes[c], 1)).Value = Arg(mes[c], 2)]_vars

\* C17: no supported command with the right number of arguments ends the
\* process by a call on an entry that is gone, and a handler that is about to
\* change an entry in place has it in storage, of the variant its type check
\* saw.
HandlersNeverFault ==
    /\ crashed # NilEntry
    /\ \A c \in Conns : pc[c] = "updcs" =>
          /\ Has(storage, User, Arg(mes[c], 1))
          /\ storage[User][Arg(mes[c], 1)].type =
                (IF mes[c].Name = "lpush" THEN "plist" ELSE "pmap")

\* C18: a sweep of the ttl checker at time t leaves in storage exactly the
\* entries whose death time is after t, each as it was.
SweepRemovesExactlyTheDead ==
    [][reaper = "sweep" /\ reaper' = "select" =>
          storage' = [u \in DOMAIN storage |->
                        [k \in {key \in DOMAIN storage[u] :
                                   getTimeOfDeath(storage[u][key]) > now} |->
                            storage[u][k]]]]_vars

\* C19: what a command does depends on its own message and on storage alone:
\* for every request that this Decode step can have read, the call of the
\* function on the decoded message gives the response and the storage that it
\* gives on that request decoded into a fresh message.
OutcomeDependsOnRequestOnly ==
    [][pc[1] = "decode" /\ pc'[1] = "exec" =>
          \A r \in SeqRequests :
             /\ mes'[1] = Decode(mes[1], r)
             /\ r.Name \in functions
             => \A order \in KeyOrders(storage, User) :
                   Call(storage, User, mes'[1], now, order) =
                      Call(storage, User, Decode(ZeroCommand, r), now, order)]_vars

\* C20: the response a function returns carries one of the five codes and the
\* status message the table gives for it.
ResponseCarriesItsStatus ==
    pc[1] = "respond" =>
       /\ resp[1].Code \in DOMAIN statusMessages
       /\ resp[1].StatusMessage = statusMessages[resp[1].Code]

(***************************************************************************)
(* Shutdown under fair scheduling: a goroutine that can take a step        *)
(* takes it, and every session's Decode fails in the end (the peer         *)
(* disconnects, or the read deadline of STALETIME passes).                 *)
(***************************************************************************)
Progress(c) ==
    \/ SessUnknown(c) \/ SessWrongArity(c) \/ SessLock(c) \/ SessBody(c)
    \/ SessSetDelete(c) \/ SessSetLock(c) \/ SessSetStore(c) \/ SessCheck(c)
    \/ SessPathLock(c) \/ SessUpdate(c) \/ SessCreate(c) \/ SessEncode(c)

Fairness ==
    /\ WF_vars(AuthLock \/ AuthDone \/ Shutdown \/ Drain)
    /\ WF_vars(ReaperLock \/ ReaperSweep \/ ReaperWait \/ ReaperTimeout)
    /\ \A c \in 1..MaxServ : WF_vars(Progress(c)) /\ SF_vars(SessEnd(c))

LiveSpec == Init /\ [][Run]_vars /\ Fairness

\* C4: if every session that runs ends, then once the accept loop is over
\* (StartServing is at shutdownChan <- true) the ttl checker takes the stop
\* signal and StartServing returns; and a stopped ttl checker stays stopped
\* and sweeps no more.
ShutdownCompletes ==
    /\ (\A c \in 1..MaxServ : (pc[c] \notin {"none", "ended"}) ~> (pc[c] = "ended"))
          => /\ (ctl.pc = "stop") ~> (reaper = "stopped")
             /\ (ctl.pc = "stop") ~> (ctl.pc = "done")
    /\ [][reaper = "stopped" => reaper' = "stopped" /\ storageMutex' # ByReaper]_vars

\* StartServing has returned from a node whose sessions stored something:
\* the accept loop ended, the ttl checker stopped, every permit came back.
ShutdownCompletes_Witness ==
    /\ ctl.pc = "done" /\ reaper = "stopped"
    /\ NUMWORKERS = MaxWorkers
    /\ \A c \in Conns : pc[c] = "ended"
    /\ Has(storage, User, "k")

====
